---- MODULE Spec2Model ----
(***************************************************************************)
(* A model of the toy transaction engine: src/src/account.rs (Account and  *)
(* its five balance operations), src/src/transaction.rs (Transaction,      *)
(* DisputeState, TransactionRecord) and src/src/engine.rs (Engine and its  *)
(* handlers).                                                              *)
(*                                                                         *)
(* Decimal amounts are modelled as integers counting the smallest unit.    *)
(* rust_decimal is exact on +, - and < within its 96-bit mantissa, and its *)
(* + and - panic ("Addition overflowed", "Subtraction overflowed") when    *)
(* the result leaves [Decimal::MIN, Decimal::MAX]. Decimal_MAX stands for  *)
(* Decimal::MAX; every other amount of the model is small, so a sum leaves *)
(* the model's range exactly when the code's sum leaves Decimal's.         *)
(***************************************************************************)
EXTENDS Integers, FiniteSets, Sequences, TLC

----------------------------------------------------------------------------
(* Bounds of the model.                                                    *)

\* Length of the transaction stream handed to process_transactions.
MaxSteps == 5

\* Client ids (u16) and transaction ids (u32) that occur in the stream.
Clients == {1, 2}
TxIds == {1, 2}

\* Amounts of the Deposit and Withdrawal rows of the stream (the format
\* asks for non-negative amounts; two distinct values tell the amount of
\* one record from that of another).
Amounts == {1, 2}

\* The numeral that stands for Decimal::MAX, 79228162514264337593543950335
\* (2^96 - 1, beyond the integers of the model checker); Decimal::MIN is
\* its negation. It lies far above every sum of the amounts in Amounts.
Decimal_MAX == 1000

----------------------------------------------------------------------------
(* transaction.rs                                                          *)

\* Option<Decimal>
NoAmount == [is_some |-> FALSE, val |-> 0]
Some(a) == [is_some |-> TRUE, val |-> a]

TransactionType == {"Deposit", "Withdrawal", "Dispute", "Resolve", "Chargeback"}

DisputeFamily == {"Dispute", "Resolve", "Chargeback"}

DisputeState == {"None", "Disputed", "Resolved", "ChargedBack"}

Transaction(type, client, tx, amount) ==
    [type |-> type, client |-> client, tx |-> tx, amount |-> amount]

TransactionRecord(t, state) == [transaction |-> t, dispute_state |-> state]

\* The rows a source can yield: Deposit and Withdrawal rows with or without
\* an amount, dispute-family rows with the amount column empty.
Transactions ==
    {Transaction(ty, c, x, a) :
        ty \in {"Deposit", "Withdrawal"}, c \in Clients, x \in TxIds,
        a \in {NoAmount} \cup {Some(n) : n \in Amounts}}
    \cup
    {Transaction(ty, c, x, NoAmount) :
        ty \in DisputeFamily, c \in Clients, x \in TxIds}

\* Deposit rows whose amount is the largest Decimal.
LargeDeposits ==
    {Transaction("Deposit", c, x, Some(Decimal_MAX)) :
        c \in Clients, x \in TxIds}

----------------------------------------------------------------------------
(* account.rs                                                              *)

Account_new(client_id) ==
    [client_id |-> client_id, total |-> 0, held |-> 0, is_locked |-> FALSE]

Account_default == Account_new(0)

\* Decimal's + and - return v when it is representable and panic otherwise.
representable(v) == -Decimal_MAX <= v /\ v <= Decimal_MAX

\* A call that yields a Decimal: it returned v, or it panicked and there is
\* no value.
Returned(v) == [err |-> "Ok", val |-> v]
Panicked == [err |-> "Panic"]

\* Mutant of get_available: held funds are not taken off.
get_available_ignoring_held(self) == Returned(self.total)

get_available(self) ==
    IF representable(self.total - self.held)
    THEN Returned(self.total - self.held)
    ELSE Panicked

\* Result<(), AccountError> together with the account after the call.
Ok(self) == [err |-> "Ok", account |-> self]
Err(e, self) == [err |-> e, account |-> self]

\* The call did not return: it panicked, leaving the account as it was then.
Panic(self) == [err |-> "Panic", account |-> self]

\* Mutant of deposit: the is_locked test is missing.
deposit_ignoring_lock(self, tx, amount) ==
    Ok([self EXCEPT !.total = @ + amount])

deposit(self, tx, amount) ==
    IF self.is_locked
    THEN Err("AccountLocked", self)
    ELSE IF ~representable(self.total + amount)
         THEN Panic(self)
         ELSE Ok([self EXCEPT !.total = @ + amount])

\* Mutant of withdraw: the funds test is left out.
withdraw_without_funds_test(self, tx, amount) ==
    IF self.is_locked
    THEN Err("AccountLocked", self)
    ELSE Ok([self EXCEPT !.total = @ - amount])

\* Mutant of withdraw: the funds test compares total, not available.
withdraw_against_total(self, tx, amount) ==
    IF self.is_locked
    THEN Err("AccountLocked", self)
    ELSE IF self.total < amount
         THEN Err("InsufficientFunds", self)
         ELSE Ok([self EXCEPT !.total = @ - amount])

withdraw(self, tx, amount) ==
    IF self.is_locked
    THEN Err("AccountLocked", self)
    ELSE IF get_available(self).err = "Panic"
         THEN Panic(self)
         ELSE IF get_available(self).val < amount
              THEN Err("InsufficientFunds", self)
              ELSE IF ~representable(self.total - amount)
                   THEN Panic(self)
                   ELSE Ok([self EXCEPT !.total = @ - amount])

\* Mutant of dispute: the disputed amount is also taken out of total.
dispute_debiting_total(self, amount) ==
    Ok([self EXCEPT !.held = @ + amount, !.total = @ - amount])

\* Mutant of dispute: the account is frozen as soon as a dispute is opened.
dispute_locking(self, amount) ==
    Ok([self EXCEPT !.held = @ + amount, !.is_locked = TRUE])

dispute(self, amount) ==
    IF ~representable(self.held + amount)
    THEN Panic(self)
    ELSE Ok([self EXCEPT !.held = @ + amount])

\* Mutant of resolve: a locked account refuses it, as deposit and withdraw do.
resolve_refusing_locked(self, amount) ==
    IF self.is_locked
    THEN Err("AccountLocked", self)
    ELSE Ok([self EXCEPT !.held = @ - amount])

\* Mutant of resolve: the held funds are not released.
resolve_keeping_held(self, amount) == Ok(self)

resolve(self, amount) ==
    IF ~representable(self.held - amount)
    THEN Panic(self)
    ELSE Ok([self EXCEPT !.held = @ - amount])

\* Mutant of chargeback: total is truncated at zero.
chargeback_clamping(self, amount) ==
    Ok([self EXCEPT !.held = @ - amount,
                    !.total = IF @ - amount < 0 THEN 0 ELSE @ - amount,
                    !.is_locked = TRUE])

chargeback(self, amount) ==
    IF ~representable(self.held - amount)
    THEN Panic(self)
    ELSE IF ~representable(self.total - amount)
         THEN Panic([self EXCEPT !.held = @ - amount])
         ELSE Ok([self EXCEPT !.held = @ - amount,
                              !.total = @ - amount,
                              !.is_locked = TRUE])

----------------------------------------------------------------------------
(* engine.rs                                                               *)

VARIABLES
    accounts,       \* Engine.accounts: HashMap<u16, Account>
    transactions,   \* Engine.transactions: HashMap<u32, TransactionRecord>
    transaction,    \* the row apply_transaction was last called with
    outcome,        \* the branch that call ended in (its log line / Result)
    steps,          \* rows consumed from the source so far
    pre_accounts,   \* history: Engine.accounts before the last call
    terminal,       \* history: tx ids whose record has been Resolved/ChargedBack
    deposited,      \* history: clients named by a Deposit row carrying an amount
    clean           \* history: no stored tx id was reused by a Deposit or
                    \* Withdrawal row, and every dispute-family row naming a
                    \* record carried that record's client

vars == <<accounts, transactions, transaction, outcome, steps,
          pre_accounts, terminal, deposited, clean>>

\* HashMap::insert: the value under k is replaced when k is present.
insert(map, k, v) ==
    [x \in (DOMAIN map) \cup {k} |-> IF x = k THEN v ELSE map[x]]

EmptyMap == [x \in {} |-> 0]

\* No row applied yet.
NoTransaction == Transaction("Start", 0, 0, NoAmount)

Engine_new ==
    /\ accounts = EmptyMap
    /\ transactions = EmptyMap
    /\ transaction = NoTransaction
    /\ outcome = "Start"
    /\ steps = 0
    /\ pre_accounts = EmptyMap
    /\ terminal = {}
    /\ deposited = {}
    /\ clean = TRUE

handle_deposit(client, tx, amount) ==
    LET account == IF client \in DOMAIN accounts
                   THEN accounts[client]
                   ELSE Account_default
        r == deposit(account, tx, amount)
    IN  /\ accounts' = insert(accounts, client, r.account)
        /\ transactions' =
              IF r.err = "Ok"
              THEN insert(transactions, tx,
                     TransactionRecord(
                        Transaction("Deposit", client, tx, Some(amount)),
                        "None"))
              ELSE transactions
        /\ outcome' = r.err

\* Mutant of handle_withdrawal: the record is stored whatever withdraw returns.
handle_withdrawal_recording_rejected(client, tx, amount) ==
    IF client \in DOMAIN accounts
    THEN LET r == withdraw(accounts[client], tx, amount)
         IN  /\ accounts' = insert(accounts, client, r.account)
             /\ transactions' =
                   insert(transactions, tx,
                     TransactionRecord(
                        Transaction("Withdrawal", client, tx, Some(amount)),
                        "None"))
             /\ outcome' = r.err
    ELSE /\ UNCHANGED <<accounts, transactions>>
         /\ outcome' = "ClientNotFound"

\* Mutant of handle_withdrawal: the account is looked up with or_default, as
\* handle_deposit does.
handle_withdrawal_creating_account(client, tx, amount) ==
    LET account == IF client \in DOMAIN accounts
                   THEN accounts[client]
                   ELSE Account_default
        r == withdraw(account, tx, amount)
    IN  /\ accounts' = insert(accounts, client, r.account)
        /\ transactions' =
              IF r.err = "Ok"
              THEN insert(transactions, tx,
                     TransactionRecord(
                        Transaction("Withdrawal", client, tx, Some(amount)),
                        "None"))
              ELSE transactions
        /\ outcome' = r.err

handle_withdrawal(client, tx, amount) ==
    IF client \in DOMAIN accounts
    THEN LET r == withdraw(accounts[client], tx, amount)
         IN  /\ accounts' = insert(accounts, client, r.account)
             /\ transactions' =
                   IF r.err = "Ok"
                   THEN insert(transactions, tx,
                          TransactionRecord(
                             Transaction("Withdrawal", client, tx, Some(amount)),
                             "None"))
                   ELSE transactions
             /\ outcome' = r.err
    ELSE /\ UNCHANGED <<accounts, transactions>>
         /\ outcome' = "ClientNotFound"

\* The shared shape of handle_dispute, handle_resolve and handle_chargeback:
\* look the record up by tx, test its state, look the account up by the
\* client the row carries, take the amount from the record, apply the
\* account operation and store the new state.
Reject(why) ==
    /\ UNCHANGED <<accounts, transactions>>
    /\ outcome' = why

handle_dispute(client, tx) ==
    IF tx \in DOMAIN transactions
    THEN LET record == transactions[tx]
         IN  IF record.dispute_state = "None"
             THEN IF client \in DOMAIN accounts
                  THEN IF record.transaction.amount.is_some
                       THEN LET r == dispute(accounts[client],
                                             record.transaction.amount.val)
                            IN  /\ accounts' = insert(accounts, client, r.account)
                                /\ transactions' =
                                     IF r.err = "Ok"
                                     THEN insert(transactions, tx,
                                            [record EXCEPT !.dispute_state = "Disputed"])
                                     ELSE transactions
                                /\ outcome' = r.err
                       ELSE Reject("RecordNoAmount")
                  ELSE Reject("ClientNotFound")
             ELSE Reject("InvalidState")
    ELSE Reject("TxNotFound")

\* Mutant of handle_resolve: the funds are released on the account of the
\* record's client instead of the account of the row's client.
handle_resolve_on_owner(client, tx) ==
    IF tx \in DOMAIN transactions
    THEN LET record == transactions[tx]
             owner == record.transaction.client
         IN  IF record.dispute_state = "Disputed"
             THEN IF owner \in DOMAIN accounts
                  THEN IF record.transaction.amount.is_some
                       THEN LET r == resolve(accounts[owner],
                                             record.transaction.amount.val)
                            IN  /\ accounts' = insert(accounts, owner, r.account)
                                /\ transactions' =
                                     insert(transactions, tx,
                                            [record EXCEPT !.dispute_state = "Resolved"])
                                /\ outcome' = r.err
                       ELSE Reject("RecordNoAmount")
                  ELSE Reject("ClientNotFound")
             ELSE Reject("InvalidState")
    ELSE Reject("TxNotFound")

handle_resolve(client, tx) ==
    IF tx \in DOMAIN transactions
    THEN LET record == transactions[tx]
         IN  IF record.dispute_state = "Disputed"
             THEN IF client \in DOMAIN accounts
                  THEN IF record.transaction.amount.is_some
                       THEN LET r == resolve(accounts[client],
                                             record.transaction.amount.val)
                            IN  /\ accounts' = insert(accounts, client, r.account)
                                /\ transactions' =
                                     IF r.err = "Ok"
                                     THEN insert(transactions, tx,
                                            [record EXCEPT !.dispute_state = "Resolved"])
                                     ELSE transactions
                                /\ outcome' = r.err
                       ELSE Reject("RecordNoAmount")
                  ELSE Reject("ClientNotFound")
             ELSE Reject("InvalidState")
    ELSE Reject("TxNotFound")

\* Mutant of handle_chargeback: the record's state is not tested.
handle_chargeback_in_any_state(client, tx) ==
    IF tx \in DOMAIN transactions
    THEN LET record == transactions[tx]
         IN  IF client \in DOMAIN accounts
             THEN LET r == chargeback(accounts[client],
                                      record.transaction.amount.val)
                  IN  /\ accounts' = insert(accounts, client, r.account)
                      /\ transactions' =
                            insert(transactions, tx,
                              [record EXCEPT !.dispute_state = "ChargedBack"])
                      /\ outcome' = r.err
             ELSE Reject("ClientNotFound")
    ELSE Reject("TxNotFound")

handle_chargeback(client, tx) ==
    IF tx \in DOMAIN transactions
    THEN LET record == transactions[tx]
         IN  IF record.dispute_state = "Disputed"
             THEN IF client \in DOMAIN accounts
                  THEN IF record.transaction.amount.is_some
                       THEN LET r == chargeback(accounts[client],
                                                record.transaction.amount.val)
                            IN  /\ accounts' = insert(accounts, client, r.account)
                                /\ transactions' =
                                     IF r.err = "Ok"
                                     THEN insert(transactions, tx,
                                            [record EXCEPT !.dispute_state = "ChargedBack"])
                                     ELSE transactions
                                /\ outcome' = r.err
                       ELSE Reject("RecordNoAmount")
                  ELSE Reject("ClientNotFound")
             ELSE Reject("InvalidState")
    ELSE Reject("TxNotFound")

\* The line Engine::report prints for the account under key c.
report_row(c) ==
    [client |-> c,
     available |-> get_available(accounts[c]).val,
     held |-> accounts[c].held,
     total |-> accounts[c].total,
     locked |-> accounts[c].is_locked]

\* Engine::report: the runs it can make on this engine. It prints one line
\* per account, in the order the HashMap iterates, which is any order. When
\* get_available panics for an account, the lines printed are those of the
\* accounts that came before it: any set of the other printable accounts.
report ==
    LET printable == {c \in DOMAIN accounts :
                        get_available(accounts[c]).err = "Ok"}
    IN  IF printable = DOMAIN accounts
        THEN {[err |-> "Ok", rows |-> {report_row(c) : c \in printable}]}
        ELSE {[err |-> "Panic", rows |-> {report_row(c) : c \in before}] :
                 before \in SUBSET printable}

\* The tx ids whose stored record is in a terminal dispute state.
TerminalNow(txs) ==
    {x \in DOMAIN txs : txs[x].dispute_state \in {"Resolved", "ChargedBack"}}

\* Row t keeps the stream well formed: as a Deposit or Withdrawal it brings a
\* tx id no record is stored under, as a dispute-family row naming a stored
\* record it carries the client of that record.
WellFormed(t) ==
    IF t.type \in {"Deposit", "Withdrawal"}
    THEN t.tx \notin DOMAIN transactions
    ELSE t.tx \in DOMAIN transactions
            => transactions[t.tx].transaction.client = t.client

\* Bookkeeping of one call: the row, the stream position and the history.
Called(t) ==
    /\ transaction' = t
    /\ steps' = steps + 1
    /\ pre_accounts' = accounts
    /\ terminal' = terminal \cup TerminalNow(transactions')
    /\ deposited' = IF t.type = "Deposit" /\ t.amount.is_some
                    THEN deposited \cup {t.client}
                    ELSE deposited
    /\ clean' = (clean /\ WellFormed(t))

\* source.transactions(): the iterator yields row t; it yields nothing once
\* the stream of MaxSteps rows is exhausted. A panic inside a handler unwinds
\* through the for loop and ends the process: no row is taken after it.
yields(t) ==
    /\ outcome # "Panic"
    /\ steps < MaxSteps
    /\ t \in Transactions \cup LargeDeposits

\* The match arms of apply_transaction, one per TransactionType.
Deposit(t) ==
    /\ yields(t)
    /\ t.type = "Deposit"
    /\ IF t.amount.is_some
       THEN handle_deposit(t.client, t.tx, t.amount.val)
       ELSE Reject("MissingAmount")
    /\ Called(t)

Withdrawal(t) ==
    /\ yields(t)
    /\ t.type = "Withdrawal"
    /\ IF t.amount.is_some
       THEN handle_withdrawal(t.client, t.tx, t.amount.val)
       ELSE Reject("MissingAmount")
    /\ Called(t)

Dispute(t) ==
    /\ yields(t)
    /\ t.type = "Dispute"
    /\ handle_dispute(t.client, t.tx)
    /\ Called(t)

Resolve(t) ==
    /\ yields(t)
    /\ t.type = "Resolve"
    /\ handle_resolve(t.client, t.tx)
    /\ Called(t)

Chargeback(t) ==
    /\ yields(t)
    /\ t.type = "Chargeback"
    /\ handle_chargeback(t.client, t.tx)
    /\ Called(t)

apply_transaction(t) ==
    \/ Deposit(t)
    \/ Withdrawal(t)
    \/ Dispute(t)
    \/ Resolve(t)
    \/ Chargeback(t)

\* One iteration of the for loop of process_transactions: the source yields
\* a row and apply_transaction is called with it.
process_transactions == \E t \in Transactions : apply_transaction(t)

Init == Engine_new

Next == process_transactions

Spec == Init /\ [][Next]_vars

\* The engine after an earlier call of process_transactions on the stream
\*   deposit(c, x, a); deposit(c, y, b); dispute(c, x); chargeback(c, x)
\* (x # y): client c is locked and still owns the undisputed record y.
\* Every variable but steps has the value Spec reaches after these four
\* rows (AfterChargebackReached); steps counts the rows of the next stream.
EngineAfterChargeback(c, x, y, a, b) ==
    /\ accounts = insert(EmptyMap, c,
            [client_id |-> 0, total |-> b, held |-> 0, is_locked |-> TRUE])
    /\ transactions =
            insert(insert(EmptyMap, x,
                     TransactionRecord(Transaction("Deposit", c, x, Some(a)),
                                       "ChargedBack")),
                   y,
                   TransactionRecord(Transaction("Deposit", c, y, Some(b)),
                                     "None"))
    /\ transaction = Transaction("Chargeback", c, x, NoAmount)
    /\ outcome = "Ok"
    /\ pre_accounts = insert(EmptyMap, c,
            [client_id |-> 0, total |-> a + b, held |-> a, is_locked |-> FALSE])
    /\ terminal = {x}
    /\ deposited = {c}
    /\ clean = TRUE

InitAfterChargeback ==
    /\ steps = 0
    /\ \E c \in Clients : EngineAfterChargeback(c, 1, 2, 1, 2)

\* process_transactions called again, on a locked account's engine.
SpecAfterChargeback == InitAfterChargeback /\ [][Next]_vars

\* process_transactions on a stream whose Deposit rows may also carry the
\* largest Decimal as their amount.
process_large_transactions ==
    \E t \in Transactions \cup LargeDeposits : apply_transaction(t)

SpecLargeAmounts == Init /\ [][process_large_transactions]_vars

\* Under Spec, four rows lead to each engine InitAfterChargeback starts from.
AfterChargebackReached ==
    /\ steps = 4
    /\ EngineAfterChargeback(2, 1, 2, 1, 2)

----------------------------------------------------------------------------
(* Vocabulary of the properties.  In an action formula the unprimed        *)
(* variables are the engine before the call and the primed ones the engine *)
(* after it; transaction' is the row of the call, outcome' its result and  *)
(* (unprimed) transaction, outcome those of the call before it.            *)

Terminal == {"Resolved", "ChargedBack"}

\* The legal moves of a record's dispute_state.
Edges == {<<"None", "Disputed">>,
          <<"Disputed", "Resolved">>,
          <<"Disputed", "ChargedBack">>}

Unchanged == accounts' = accounts /\ transactions' = transactions

----------------------------------------------------------------------------
\* C1: once the record stored under a tx id has reached Resolved or
\* ChargedBack, every later Dispute, Resolve or Chargeback naming that tx id
\* leaves every account (total, held, hence available, and is_locked)
\* unchanged.
C1_TerminalStaysFinal ==
    [][ (transaction'.type \in DisputeFamily /\ transaction'.tx \in terminal)
            => accounts' = accounts ]_vars

\* C2: the dispute_state stored under a tx id moves only along
\* None->Disputed, Disputed->Resolved, Disputed->ChargedBack; a stored record
\* is never dropped and its state never returns to None.
C2_OneWayStates ==
    [][ \A x \in DOMAIN transactions :
            /\ x \in DOMAIN transactions'
            /\ \/ transactions'[x].dispute_state = transactions[x].dispute_state
               \/ <<transactions[x].dispute_state,
                    transactions'[x].dispute_state>> \in Edges ]_vars

\* C3: a locked account stays locked, and a Deposit or Withdrawal naming a
\* locked account leaves its total and held as they were and leaves the
\* record map as it was.
C3_LockMonotonic ==
    [][ \A c \in DOMAIN accounts :
            accounts[c].is_locked =>
                /\ c \in DOMAIN accounts'
                /\ accounts'[c].is_locked
                /\ (transaction'.type \in {"Deposit", "Withdrawal"}
                        /\ transaction'.client = c)
                     => /\ accounts'[c].total = accounts[c].total
                        /\ accounts'[c].held = accounts[c].held
                        /\ transactions' = transactions ]_vars

\* C3 witness: a Deposit or Withdrawal carrying an amount was just rejected
\* because the account it names is locked.
C3_Witness ==
    /\ transaction.type \in {"Deposit", "Withdrawal"}
    /\ transaction.amount.is_some
    /\ outcome = "AccountLocked"
    /\ transaction.client \in DOMAIN accounts
    /\ accounts[transaction.client].is_locked

\* C4: an effective Dispute, Resolve or Chargeback changes no account other
\* than the account of the client stored on the record it names.
C4_OwnerAccountOnly ==
    [][ (transaction'.type \in DisputeFamily /\ outcome' = "Ok") =>
            LET owner == transactions[transaction'.tx].transaction.client
            IN  \A c \in DOMAIN accounts' :
                    c # owner => (c \in DOMAIN accounts
                                    /\ accounts'[c] = accounts[c]) ]_vars

\* C5: a Deposit or Withdrawal that succeeds stores, under its tx id, a record
\* of its own row in state None and touches no other record; one that is
\* rejected (AccountLocked, InsufficientFunds, unknown client, missing amount)
\* leaves the record map and every account unchanged; and a Dispute naming a
\* tx id with no record changes nothing.
C5_RecordIffSuccess ==
    [][ /\ transaction'.type \in {"Deposit", "Withdrawal"} =>
            LET x == transaction'.tx
            IN  IF outcome' = "Ok"
                THEN /\ transaction'.amount.is_some
                     /\ DOMAIN transactions' = (DOMAIN transactions) \cup {x}
                     /\ transactions'[x] =
                            [transaction |-> transaction', dispute_state |-> "None"]
                     /\ \A y \in (DOMAIN transactions) \ {x} :
                            transactions'[y] = transactions[y]
                ELSE /\ outcome' \in {"AccountLocked", "InsufficientFunds",
                                      "ClientNotFound", "MissingAmount"}
                     /\ Unchanged
        /\ (transaction'.type = "Dispute"
                /\ transaction'.tx \notin DOMAIN transactions) => Unchanged ]_vars

\* C5 witness: a Withdrawal was just rejected for insufficient funds and its
\* tx id has no record.
C5_Witness ==
    /\ transaction.type = "Withdrawal"
    /\ outcome = "InsufficientFunds"
    /\ transaction.tx \notin DOMAIN transactions

\* C6: a Withdrawal of amount a on an existing account succeeds exactly when
\* the account is unlocked and total - held >= a; then total drops by a and
\* held and is_locked are as before; otherwise the account is as before.
C6_WithdrawIff ==
    [][ (transaction'.type = "Withdrawal" /\ transaction'.amount.is_some
            /\ transaction'.client \in DOMAIN accounts) =>
            LET before == accounts[transaction'.client]
                after == accounts'[transaction'.client]
                a == transaction'.amount.val
            IN  /\ (outcome' = "Ok") <=>
                       (~before.is_locked /\ before.total - before.held >= a)
                /\ outcome' = "Ok" =>
                       /\ after.total = before.total - a
                       /\ after.held = before.held
                       /\ after.is_locked = before.is_locked
                /\ outcome' # "Ok" => after = before ]_vars

\* C6 witness: a Withdrawal of an amount within total but above available
\* (funds are held) was just rejected.
C6_Witness ==
    /\ transaction.type = "Withdrawal"
    /\ outcome = "InsufficientFunds"
    /\ accounts[transaction.client].held > 0
    /\ transaction.amount.val <= accounts[transaction.client].total
    /\ transaction.amount.val > get_available(accounts[transaction.client]).val

\* C7: a Dispute, Resolve or Chargeback that names no record, names a record
\* in Resolved or ChargedBack, is a Resolve or Chargeback on a None record, or
\* is a Dispute on a Disputed record, is rejected; every rejected one leaves
\* all accounts and all records unchanged (so the record of a rejected
\* Resolve or Chargeback is still None), and a Dispute on a None record for an
\* existing account takes effect whatever was rejected before it.
C7_RejectedIsNoop ==
    [][ transaction'.type \in DisputeFamily =>
            LET x == transaction'.tx
                known == x \in DOMAIN transactions
                rejected ==
                    \/ ~known
                    \/ known /\ transactions[x].dispute_state \in Terminal
                    \/ known /\ transactions[x].dispute_state = "None"
                             /\ transaction'.type \in {"Resolve", "Chargeback"}
                    \/ known /\ transactions[x].dispute_state = "Disputed"
                             /\ transaction'.type = "Dispute"
            IN  /\ rejected => outcome' # "Ok"
                /\ outcome' # "Ok" => Unchanged
                /\ (known /\ transactions[x].dispute_state = "None"
                        /\ transaction'.type = "Dispute"
                        /\ transaction'.client \in DOMAIN accounts)
                     => /\ outcome' = "Ok"
                        /\ transactions'[x].dispute_state = "Disputed" ]_vars

\* C7 witness: a Resolve or Chargeback was just rejected on a record in state
\* None, which is still None.
C7_Witness ==
    /\ transaction.type \in {"Resolve", "Chargeback"}
    /\ outcome = "InvalidState"
    /\ transaction.tx \in DOMAIN transactions
    /\ transactions[transaction.tx].dispute_state = "None"

\* C8: a Dispute on a record in state None, for an existing account, raises
\* that account's held by the amount stored on the record, leaves its total
\* and is_locked as they were (available drops by the amount) and sets the
\* record's state to Disputed, the stored row unchanged.
C8_DisputeHoldsAmount ==
    [][ (transaction'.type = "Dispute"
            /\ transaction'.tx \in DOMAIN transactions
            /\ transactions[transaction'.tx].dispute_state = "None"
            /\ transaction'.client \in DOMAIN accounts) =>
            LET before == accounts[transaction'.client]
                after == accounts'[transaction'.client]
                record == transactions[transaction'.tx]
                a == record.transaction.amount.val
            IN  /\ record.transaction.type \in {"Deposit", "Withdrawal"}
                /\ record.transaction.amount.is_some
                /\ after.held = before.held + a
                /\ after.total = before.total
                /\ after.is_locked = before.is_locked
                /\ after.total - after.held = (before.total - before.held) - a
                /\ transactions'[transaction'.tx] =
                       [record EXCEPT !.dispute_state = "Disputed"] ]_vars

\* C8 witness: a Dispute just took effect on the record of a deposit of 2
\* while the record of a deposit of 1 is stored beside it.
C8_Witness ==
    /\ transaction.type = "Dispute"
    /\ outcome = "Ok"
    /\ transactions[transaction.tx].transaction.amount.val = 2
    /\ \E y \in DOMAIN transactions : transactions[y].transaction.amount.val = 1
    /\ accounts[transaction.client].held =
           pre_accounts[transaction.client].held + 2

\* C9: an effective Dispute immediately followed by an effective Resolve on
\* the same tx id returns the account the Dispute acted on to exactly its
\* state before the Dispute and leaves the record Resolved.
C9_DisputeResolveRoundTrip ==
    [][ (transaction.type = "Dispute" /\ outcome = "Ok"
            /\ transaction'.type = "Resolve" /\ outcome' = "Ok"
            /\ transaction'.tx = transaction.tx) =>
            /\ accounts'[transaction.client] = pre_accounts[transaction.client]
            /\ transactions'[transaction.tx].dispute_state = "Resolved" ]_vars

\* C10: a Chargeback on a record in state Disputed sets the record's state to
\* ChargedBack and lowers held and total of the account (the one the
\* Chargeback names, or the one of the record's client) by the amount stored
\* on the record and locks it.
C10_ChargebackReverses ==
    [][ (transaction'.type = "Chargeback"
            /\ transaction'.tx \in DOMAIN transactions
            /\ transactions[transaction'.tx].dispute_state = "Disputed") =>
            LET record == transactions[transaction'.tx]
                a == record.transaction.amount.val
            IN  /\ transactions'[transaction'.tx].dispute_state = "ChargedBack"
                /\ \E c \in {transaction'.client, record.transaction.client}
                                \cap DOMAIN accounts :
                        /\ accounts'[c].held = accounts[c].held - a
                        /\ accounts'[c].total = accounts[c].total - a
                        /\ accounts'[c].is_locked ]_vars

\* C11: the accounts are exactly the clients named so far by a Deposit row
\* carrying an amount; no account is ever removed; an account appears only in
\* a Deposit call naming its client, with total = the amount, held = 0 and
\* unlocked; a Withdrawal, Dispute, Resolve or Chargeback call adds none.
C11_AccountsOnlyByDeposit ==
    [][ /\ DOMAIN accounts' = deposited'
        /\ DOMAIN accounts \subseteq DOMAIN accounts'
        /\ \A c \in (DOMAIN accounts') \ (DOMAIN accounts) :
                /\ transaction'.type = "Deposit"
                /\ transaction'.client = c
                /\ transaction'.amount.is_some
                /\ accounts'[c].total = transaction'.amount.val
                /\ accounts'[c].held = 0
                /\ ~accounts'[c].is_locked
        /\ transaction'.type # "Deposit"
                => DOMAIN accounts' = DOMAIN accounts ]_vars

\* C11 witness: a Withdrawal naming a client with no account was just
\* applied, another client has an account, and the named client still has
\* none.
C11_Witness ==
    /\ transaction.type = "Withdrawal"
    /\ transaction.amount.is_some
    /\ outcome = "ClientNotFound"
    /\ DOMAIN accounts # {}
    /\ transaction.client \notin DOMAIN accounts

\* C12: on an account that is already locked, a Resolve or Chargeback naming
\* it and a Disputed record of it takes full effect: held drops by the
\* recorded amount, total drops by it too for a Chargeback and stays for a
\* Resolve, the account stays locked and the record becomes Resolved or
\* ChargedBack.
C12_LockDoesNotGateLifecycle ==
    [][ (transaction'.type \in {"Resolve", "Chargeback"}
            /\ transaction'.tx \in DOMAIN transactions
            /\ transactions[transaction'.tx].dispute_state = "Disputed"
            /\ transaction'.client \in DOMAIN accounts
            /\ accounts[transaction'.client].is_locked
            /\ transactions[transaction'.tx].transaction.client
                   = transaction'.client) =>
            LET before == accounts[transaction'.client]
                after == accounts'[transaction'.client]
                a == transactions[transaction'.tx].transaction.amount.val
                resolving == transaction'.type = "Resolve"
            IN  /\ outcome' = "Ok"
                /\ after.held = before.held - a
                /\ after.total = IF resolving THEN before.total
                                              ELSE before.total - a
                /\ after.is_locked
                /\ transactions'[transaction'.tx].dispute_state =
                       IF resolving THEN "Resolved" ELSE "ChargedBack" ]_vars

\* C12 witness: a Resolve just took effect on a record of the client it
\* names, whose account was locked before the call.
C12_Witness ==
    /\ transaction.type = "Resolve"
    /\ outcome = "Ok"
    /\ transaction.client \in DOMAIN pre_accounts
    /\ pre_accounts[transaction.client].is_locked
    /\ transactions[transaction.tx].transaction.client = transaction.client
    /\ transactions[transaction.tx].dispute_state = "Resolved"
    /\ accounts[transaction.client].held
           = pre_accounts[transaction.client].held
               - transactions[transaction.tx].transaction.amount.val

\* C13: no row stops the rows after it: in every state a run can reach,
\* while rows of the stream remain, the next row, whichever row it is, is
\* applied (process_transactions has not ended before the stream has).
C13_TotalStreamProcessing ==
    [](steps < MaxSteps =>
          \A t \in Transactions : ENABLED apply_transaction(t))

\* C14: a Dispute, Resolve or Chargeback that is legal by the record's state
\* (Dispute on None, Resolve or Chargeback on Disputed) and names an existing
\* account is applied whatever the balances are: held moves by exactly the
\* recorded amount and total drops by exactly it on a Chargeback, with no
\* rejection and no truncation at zero.
C14_NoClamping ==
    [][ (transaction'.type \in DisputeFamily
            /\ transaction'.tx \in DOMAIN transactions
            /\ transactions[transaction'.tx].dispute_state =
                   (IF transaction'.type = "Dispute" THEN "None" ELSE "Disputed")
            /\ transaction'.client \in DOMAIN accounts) =>
            LET before == accounts[transaction'.client]
                after == accounts'[transaction'.client]
                a == transactions[transaction'.tx].transaction.amount.val
            IN  /\ outcome' = "Ok"
                /\ after.held = IF transaction'.type = "Dispute"
                                THEN before.held + a
                                ELSE before.held - a
                /\ after.total = IF transaction'.type = "Chargeback"
                                 THEN before.total - a
                                 ELSE before.total ]_vars

\* C14 witness: a Chargeback just took effect on an account whose available
\* was negative before it (a disputed deposit had already been withdrawn) and
\* whose total is negative after it, on a well-formed stream.
C14_Witness ==
    /\ clean
    /\ transaction.type = "Chargeback"
    /\ outcome = "Ok"
    /\ get_available(pre_accounts[transaction.client]).val < 0
    /\ accounts[transaction.client].total < 0

\* C15: an account's is_locked changes in a call only from false to true and
\* only when the call is a Chargeback that took effect on that account; an
\* account that appears in a call is unlocked.
C15_OnlyChargebackLocks ==
    [][ \A c \in DOMAIN accounts' :
            LET was == c \in DOMAIN accounts /\ accounts[c].is_locked
            IN  accounts'[c].is_locked # was =>
                    /\ accounts'[c].is_locked
                    /\ transaction'.type = "Chargeback"
                    /\ outcome' = "Ok"
                    /\ transaction'.client = c ]_vars

\* C15 witness: a Chargeback just locked an account that was unlocked.
C15_Witness ==
    /\ transaction.type = "Chargeback"
    /\ outcome = "Ok"
    /\ ~pre_accounts[transaction.client].is_locked
    /\ accounts[transaction.client].is_locked

\* C16: in every reachable state, for every account, the total the engine
\* reports equals the available it reports (get_available) plus the held it
\* reports; a report that runs to its end has a line for every account.
C16_TotalIsAvailablePlusHeld ==
    \A run \in report :
        /\ \A row \in run.rows : row.total = row.available + row.held
        /\ run.err = "Ok" => {row.client : row \in run.rows} = DOMAIN accounts

\* C16 witness: a call was just rejected while an account holds disputed
\* funds and its available is negative.
C16_Witness ==
    /\ outcome \notin {"Ok", "Start"}
    /\ \E run \in report :
          \E row \in run.rows : row.held > 0 /\ row.available < 0

\* C17: a stored record keeps its row (type, client, tx, amount) in every
\* later call, a Deposit or Withdrawal carrying the same tx id included.
C17_RecordStable ==
    [][ \A x \in DOMAIN transactions :
            /\ x \in DOMAIN transactions'
            /\ transactions'[x].transaction = transactions[x].transaction ]_vars

\* The sum of the amounts of the stored records whose tx id is in txs.
RECURSIVE SumOfAmounts(_)
SumOfAmounts(txs) ==
    IF txs = {}
    THEN 0
    ELSE LET x == CHOOSE y \in txs : TRUE
         IN  transactions[x].transaction.amount.val + SumOfAmounts(txs \ {x})

\* The tx ids of client c's stored records that are currently Disputed.
DisputedOf(c) ==
    {x \in DOMAIN transactions :
        /\ transactions[x].transaction.client = c
        /\ transactions[x].dispute_state = "Disputed"}

\* C18: while no Deposit/Withdrawal row reused a stored tx id and every
\* dispute-family row carried the client id of the record it names, each
\* account's held is the sum of the amounts of that client's Disputed records.
C18_HeldIsSumOfDisputed ==
    clean => \A c \in DOMAIN accounts :
                accounts[c].held = SumOfAmounts(DisputedOf(c))

\* C18 witness: in such a stream, one client has two Disputed records at once
\* and its held is the sum of both amounts.
C18_Witness ==
    /\ clean
    /\ \E c \in DOMAIN accounts :
          /\ DisputedOf(c) = {1, 2}
          /\ accounts[c].held = 3

\* C19: every account stored under key c carries client_id = c.
C19_AccountIdentity ==
    \A c \in DOMAIN accounts : accounts[c].client_id = c

\* C20: one call with client c and tx t leaves every account under another
\* key and every record under another key as it was, created or removed
\* entries included.
C20_Frame ==
    [][ /\ \A c \in (DOMAIN accounts \cup DOMAIN accounts') \ {transaction'.client} :
              /\ c \in DOMAIN accounts
              /\ c \in DOMAIN accounts'
              /\ accounts'[c] = accounts[c]
        /\ \A x \in (DOMAIN transactions \cup DOMAIN transactions') \ {transaction'.tx} :
              /\ x \in DOMAIN transactions
              /\ x \in DOMAIN transactions'
              /\ transactions'[x] = transactions[x] ]_vars

\* C20 witness: a dispute-family call took effect on a record stored for
\* another client than the row's, with both clients' accounts and another
\* record present.
C20_Witness ==
    /\ transaction.type \in DisputeFamily
    /\ outcome = "Ok"
    /\ transaction.tx \in DOMAIN transactions
    /\ transactions[transaction.tx].transaction.client # transaction.client
    /\ transactions[transaction.tx].transaction.client \in DOMAIN accounts
    /\ DOMAIN transactions # {transaction.tx}

\* C21: with non-negative amounts, the available of the account a successful
\* Withdrawal acted on is >= 0 right after it, and a call in which an
\* account's available goes from >= 0 to < 0 is an effective Dispute; Deposit,
\* Withdrawal, Resolve and Chargeback never take available below zero from a
\* non-negative value.
C21_OverdraftOnlyThroughDisputes ==
    [][ /\ (transaction'.type = "Withdrawal" /\ outcome' = "Ok") =>
              get_available(accounts'[transaction'.client]).val >= 0
        /\ \A c \in DOMAIN accounts :
              (get_available(accounts[c]).val >= 0
                  /\ get_available(accounts'[c]).val < 0) =>
                      /\ transaction'.type = "Dispute"
                      /\ outcome' = "Ok" ]_vars

\* C21 witness: in a stream without tx-id reuse or foreign dispute rows, an
\* effective Dispute has just taken an account's available from >= 0 to < 0,
\* the disputed funds having been withdrawn before.
C21_Witness ==
    /\ clean
    /\ transaction.type = "Dispute"
    /\ outcome = "Ok"
    /\ get_available(pre_accounts[transaction.client]).val >= 0
    /\ get_available(accounts[transaction.client]).val < 0
    /\ \E x \in DOMAIN transactions :
          /\ transactions[x].transaction.type = "Withdrawal"
          /\ transactions[x].transaction.client = transaction.client

====
